---- MODULE Spec2Model ----
(***************************************************************************)
(* Model of the Vault Transform relay for BigQuery remote functions:       *)
(* src/main.py (Flask deployment) and src/deploy/cloud-function/main.py    *)
(* (Cloud Function deployment).                                            *)
(*                                                                         *)
(* Strings are sequences of symbols; a symbol is one character ("4") or an *)
(* indivisible block of characters ("calls").  JSON / Python values are    *)
(* tagged records: null, bool, num, str, list and obj (a sequence of       *)
(* <<key, value>> pairs in insertion order).                               *)
(***************************************************************************)
EXTENDS Integers, Sequences, FiniteSets, TLC

VARIABLES
    deploy,        \* which main.py runs: "flask" or "cloudfn"
    environ,       \* os.environ of the process
    proc,          \* "boot", "running" or "crashed"
    vault_client,  \* the module-level VaultTransformClient (its four fields)
    request,       \* per worker: the request being handled
    pc,            \* per worker: position inside the handler
    calls,         \* per worker: the sequence the for-loop iterates
    idx,           \* per worker: number of loop iterations completed
    replies,       \* per worker: the replies list built so far
    outbound,      \* per worker: the requests.post in flight
    log,           \* per worker: the Vault exchanges of the current request
    response,      \* per worker: the response returned by the handler
    origin,        \* per worker: the test_cards behind a round-trip request
    caught,        \* per worker: the exception the handler's except clause logged
    vault_reachable, \* whether a connection to VAULT_URL can be opened
    previous,      \* per worker: status of the response it sent last (0: none)
    connected      \* per worker: whether the caller still waits for the response

vars == <<deploy, environ, proc, vault_client, request, pc, calls, idx,
          replies, outbound, log, response, origin, caught, vault_reachable,
                   previous, connected>>

----------------------------------------------------------------------------
(* Bounds of the model *)

MaxCalls == 2

Workers == {1, 2}

----------------------------------------------------------------------------
(* JSON / Python values *)

JNull == [t |-> "null"]
JBool(b) == [t |-> "bool", v |-> b]
JNum(n) == [t |-> "num", v |-> n]
JStr(s) == [t |-> "str", v |-> s]
JList(l) == [t |-> "list", v |-> l]
JObj(p) == [t |-> "obj", v |-> p]

None == JNull

CALLS == <<"calls">>
DATA == <<"data">>
VALUE == <<"value">>
ENCODED_VALUE == <<"encoded_value">>
DECODED_VALUE == <<"decoded_value">>
ERROR == <<"error">>
REPLIES == <<"replies">>
STATUS == <<"status">>

\* Python truthiness of a JSON-derived value.
Truthy(x) ==
    CASE x.t = "null" -> FALSE
      [] x.t = "bool" -> x.v
      [] x.t = "num" -> x.v # 0
      [] x.t \in {"str", "list", "obj"} -> Len(x.v) > 0

\* len(x) is defined for str, list and dict only; TypeError otherwise.
HasLen(x) == x.t \in {"str", "list", "obj"}

\* x[0]: list element, first character of a str; a dict parsed from JSON has
\* only str keys, so x[0] raises KeyError; an empty sequence raises IndexError.
CanIndex0(x) == x.t \in {"str", "list"} /\ Len(x.v) > 0

Index0(x) == IF x.t = "str" THEN JStr(<<x.v[1]>>) ELSE x.v[1]

\* `for call in calls`: list elements, str characters, dict keys.
Iterable(x) == x.t \in {"str", "list", "obj"}

\* Mutant: the sequence is visited from its last element to its first.
PyIter_Reversed(x) ==
    CASE x.t = "list" -> [i \in 1..Len(x.v) |-> x.v[Len(x.v) + 1 - i]]
      [] x.t = "str" -> [i \in 1..Len(x.v) |-> JStr(<<x.v[Len(x.v) + 1 - i]>>)]
      [] x.t = "obj" -> [i \in 1..Len(x.v) |-> JStr(x.v[Len(x.v) + 1 - i][1])]

PyIter(x) ==
    CASE x.t = "list" -> x.v
      [] x.t = "str" -> [i \in 1..Len(x.v) |-> JStr(<<x.v[i]>>)]
      [] x.t = "obj" -> [i \in 1..Len(x.v) |-> JStr(x.v[i][1])]

\* sub occurs in s as a contiguous run (str.__contains__).
Contains(s, sub) ==
    \E i \in 0..(Len(s) - Len(sub)) :
        \A j \in 1..Len(sub) : s[i + j] = sub[j]

\* `key in x` is defined for dict (key lookup), list (element equality) and
\* str (substring); TypeError for None, bool and numbers.
CanContain(x) == x.t \in {"str", "list", "obj"}

PyIn(key, x) ==
    CASE x.t = "obj" -> \E i \in 1..Len(x.v) : x.v[i][1] = key
      [] x.t = "list" -> \E i \in 1..Len(x.v) : x.v[i] = JStr(key)
      [] x.t = "str" -> Contains(x.v, key)

ObjHas(o, key) == \E i \in 1..Len(o.v) : o.v[i][1] = key

\* dict lookup; json.loads keeps the last value of a repeated key.
ObjGet(o, key) ==
    LET hits == {i \in 1..Len(o.v) : o.v[i][1] = key}
        last == CHOOSE i \in hits : \A j \in hits : j <= i
    IN  o.v[last][2]

DigitSym == <<"0", "1", "2", "3", "4", "5", "6", "7", "8", "9">>

RECURSIVE Digits(_)
Digits(n) == IF n < 10 THEN <<DigitSym[n + 1]>>
             ELSE Digits(n \div 10) \o <<DigitSym[(n % 10) + 1]>>

\* Mutant: a number is formatted as a float.
PyStr_Float(x) ==
    CASE x.t = "str" -> x.v
      [] x.t = "num" -> (IF x.v < 0 THEN <<"-">> \o Digits(-x.v) ELSE Digits(x.v))
                            \o <<".", "0">>
      [] x.t = "bool" -> IF x.v THEN <<"True">> ELSE <<"False">>
      [] x.t = "null" -> <<"None">>

\* str(x) for the scalar JSON values.
PyStr(x) ==
    CASE x.t = "str" -> x.v
      [] x.t = "num" -> IF x.v < 0 THEN <<"-">> \o Digits(-x.v) ELSE Digits(x.v)
      [] x.t = "bool" -> IF x.v THEN <<"True">> ELSE <<"False">>
      [] x.t = "null" -> <<"None">>

----------------------------------------------------------------------------
(* VaultTransformClient *)

EnvNames == {"VAULT_URL", "VAULT_ADDR", "VAULT_TOKEN", "VAULT_NAMESPACE",
             "VAULT_TRANSFORM_ROLE"}

\* os.environ.get(name, default): an unset variable is None in the model.
EnvGet(env, name, default) == IF env[name] = None THEN default ELSE env[name]

\* The Flask deployment reads VAULT_URL, the Cloud Function VAULT_ADDR.
UrlVar(d) == IF d = "flask" THEN "VAULT_URL" ELSE "VAULT_ADDR"

\* The four attributes __init__ assigns.
ClientFields(env, d) ==
    [vault_url |-> EnvGet(env, UrlVar(d), JStr(<<"https://vault.example.com">>)),
     vault_token |-> EnvGet(env, "VAULT_TOKEN", None),
     vault_namespace |-> EnvGet(env, "VAULT_NAMESPACE", JStr(<<>>)),
     transform_role |-> EnvGet(env, "VAULT_TRANSFORM_ROLE",
                               JStr(<<"creditcard-transform">>))]

\* Mutant: the check tests a field that always has a value.
InitRaises_WrongField(self) == ~Truthy(self.vault_url)

\* `if not self.vault_token: raise ValueError(...)`
InitRaises(self) == ~Truthy(self.vault_token)

NoClient == [t |-> "noclient"]

\* Mutant: the namespace header is always added.
_get_headers_AlwaysNamespace(self) ==
    JObj(<<<<<<"X-Vault-Token">>, self.vault_token>>,
           <<<<"Content-Type">>, JStr(<<"application/json">>)>>,
           <<<<"X-Vault-Namespace">>, self.vault_namespace>>>>)

_get_headers(self) ==
    LET headers == <<<<<<"X-Vault-Token">>, self.vault_token>>,
                     <<<<"Content-Type">>, JStr(<<"application/json">>)>>>>
    IN  IF Truthy(self.vault_namespace)
        THEN JObj(Append(headers, <<<<"X-Vault-Namespace">>, self.vault_namespace>>))
        ELSE JObj(headers)

\* The arguments of requests.post; endpoint is "encode" or "decode".
Post(self, endpoint, value) ==
    [url |-> self.vault_url.v \o <<"/v1/transform/">> \o <<endpoint>> \o <<"/">>
             \o self.transform_role.v,
     headers |-> _get_headers(self),
     json |-> JObj(<<<<VALUE, JStr(value)>>>>),
     timeout |-> 30]

\* Mutant: decrypt posts to the encode endpoint.
decrypt_post_EncodeUrl(self, ciphertext) == Post(self, "encode", ciphertext)

encrypt_post(self, plaintext) == Post(self, "encode", plaintext)

decrypt_post(self, ciphertext) == Post(self, "decode", ciphertext)

\* A Vault exchange as the client sees it: requests.post raised (connection
\* error, timeout), or a response with a status code, a text and a body that
\* response.json() parses (json) or fails to parse (NotJson).
NotJson == [t |-> "notjson"]

Raised == [raised |-> TRUE]
Returned(x) == [raised |-> FALSE, value |-> x]

\* The body of the try block of encrypt / decrypt: what it returns, or that it
\* raised.  result.get('data', {}).get(field) raises AttributeError when result
\* or data is no dict.
TryTransform(field, resp) ==
    IF resp.exc THEN Raised
    ELSE IF resp.status_code = 200
         THEN IF resp.json = NotJson THEN Raised
              ELSE IF resp.json.t # "obj" THEN Raised
              ELSE LET data == IF ObjHas(resp.json, DATA)
                               THEN ObjGet(resp.json, DATA) ELSE JObj(<<>>)
                   IN  IF data.t # "obj" THEN Raised
                       ELSE IF ObjHas(data, field)
                            THEN Returned(ObjGet(data, field))
                            ELSE Returned(None)
         ELSE Returned(None)

\* Mutant: the exception is not caught.
ExceptReraise(r) == r

\* `except Exception as e: ... return None`
ExceptReturnNone(r) == IF r.raised THEN Returned(None) ELSE r

\* Mutant: requests.post stands before the try block.
encrypt_PostOutsideTry(resp) ==
    IF resp.exc THEN Raised
    ELSE ExceptReturnNone(TryTransform(ENCODED_VALUE, resp))

\* Mutant: on a non-200 status encrypt returns response.text.
encrypt_LeakText(resp) ==
    IF ~resp.exc /\ resp.status_code # 200 THEN Returned(JStr(<<resp.text>>))
    ELSE ExceptReturnNone(TryTransform(ENCODED_VALUE, resp))

\* Mutant: a non-200 status raises outside the try block.
encrypt_RaiseForStatus(resp) ==
    IF ~resp.exc /\ resp.status_code # 200 THEN Raised
    ELSE IF TryTransform(ENCODED_VALUE, resp).raised THEN Returned(None)
    ELSE TryTransform(ENCODED_VALUE, resp)

\* Mutant: decrypt has no try / except.
decrypt_NoExcept(resp) == TryTransform(DECODED_VALUE, resp)

\* Mutant: decrypt reads the field of encrypt.
decrypt_WrongField(resp) ==
    IF TryTransform(ENCODED_VALUE, resp).raised THEN Returned(None)
    ELSE TryTransform(ENCODED_VALUE, resp)

encrypt(resp) == ExceptReturnNone(TryTransform(ENCODED_VALUE, resp))

decrypt(resp) == ExceptReturnNone(TryTransform(DECODED_VALUE, resp))

----------------------------------------------------------------------------
(* The Vault Transform backend (external): a fixed bijection on strings,    *)
(* digit by digit, served at the encode and decode endpoints, and every way *)
(* an exchange can go wrong.                                               *)

DigitIndex(c) == CHOOSE i \in 1..10 : DigitSym[i] = c

IsDigit(c) == \E i \in 1..10 : DigitSym[i] = c

EncSym(c) == IF IsDigit(c) THEN DigitSym[((DigitIndex(c) - 1 + 3) % 10) + 1] ELSE c

DecSym(c) == IF IsDigit(c) THEN DigitSym[((DigitIndex(c) - 1 + 7) % 10) + 1] ELSE c

Enc(s) == [i \in 1..Len(s) |-> EncSym(s[i])]

Dec(s) == [i \in 1..Len(s) |-> DecSym(s[i])]

Http(code, text, body) ==
    [exc |-> FALSE, status_code |-> code, text |-> text, json |-> body]

ConnectionError == [exc |-> TRUE]

IsEncodeUrl(url) == Contains(url, <<"/v1/transform/", "encode", "/">>)

SentValue(out) == ObjGet(out.json, VALUE).v

\* The answer of a working backend to an outbound call.
VaultGood(out) ==
    IF IsEncodeUrl(out.url)
    THEN Http(200, "ok", JObj(<<<<DATA,
              JObj(<<<<ENCODED_VALUE, JStr(Enc(SentValue(out)))>>>>)>>>>))
    ELSE Http(200, "ok", JObj(<<<<DATA,
              JObj(<<<<DECODED_VALUE, JStr(Dec(SentValue(out)))>>>>)>>>>))

\* Non-200 answers and transport failures.
VaultFailures ==
    {ConnectionError,
     Http(403, "permission denied", NotJson),
     Http(500, "internal error", JObj(<<<<<<"errors">>, JList(<<>>)>>>>))}

\* 200 answers whose body is not the documented shape.
VaultMalformed(out) ==
    {Http(200, "<html>", NotJson),
     Http(200, "[]", JList(<<>>)),
     Http(200, "{}", JObj(<<>>)),
     Http(200, "data null", JObj(<<<<DATA, JNull>>>>)),
     Http(200, "data empty", JObj(<<<<DATA, JObj(<<>>)>>>>)),
     Http(200, "other field", JObj(<<<<DATA,
          JObj(<<<<IF IsEncodeUrl(out.url) THEN DECODED_VALUE ELSE ENCODED_VALUE,
                   JStr(SentValue(out))>>>>)>>>>)),
     Http(200, "number", JObj(<<<<DATA,
          JObj(<<<<IF IsEncodeUrl(out.url) THEN ENCODED_VALUE ELSE DECODED_VALUE,
                   JNum(7)>>>>)>>>>))}

VaultResponses(out) == {VaultGood(out)} \cup VaultFailures \cup VaultMalformed(out)

----------------------------------------------------------------------------
(* Requests: what a caller can send *)

Card(s) == JList(<<JStr(s)>>)

\* Entries every batch up to MaxCalls is built from: empty, missing, falsy
\* first element, and two different values.
FreeEntries ==
    {JList(<<>>), JNull, Card(<<>>), Card(<<"4", "1">>), Card(<<"5", "5">>)}

FreeBatches == UNION {[1..n -> FreeEntries] : n \in 0..MaxCalls}

\* Further batches: the example of the specification, numeric, boolean and
\* multi-element entries, and entries that are no lists.
FixtureBatches ==
    {<<Card(<<"4", "1">>), JList(<<>>), Card(<<"5", "5">>)>>,
     <<JList(<<JNum(0)>>)>>,
     <<JList(<<JNull>>)>>,
     <<JList(<<JBool(FALSE)>>)>>,
     <<JList(<<JBool(TRUE)>>)>>,
     <<JList(<<JNum(41)>>), Card(<<"4", "1">>)>>,
     <<JList(<<JStr(<<"4", "1">>), JStr(<<"9">>)>>)>>,
     <<JList(<<JNull, JStr(<<"9">>)>>)>>,
     <<JStr(<<"4", "1">>)>>,
     <<JNum(5)>>,
     <<Card(<<"4", "1">>), JNum(5)>>,
     <<JBool(TRUE)>>,
     <<JNum(0), JStr(<<>>), JBool(FALSE)>>,
     <<JObj(<<<<<<"k">>, JNum(1)>>>>)>>,
     <<Card(<<"4", "1">>), JObj(<<<<<<"k">>, JNum(1)>>>>)>>}

\* The other fields BigQuery sends along with calls.
Envelope(c) ==
    JObj(<<<<<<"requestId">>, JStr(<<"test-123">>)>>,
           <<<<"caller">>, JStr(<<"//bigquery.googleapis.com/projects/test/jobs/test">>)>>,
           <<<<"sessionUser">>, JStr(<<"test-user@test.com">>)>>,
           <<CALLS, c>>>>)

Bare(c) == JObj(<<<<CALLS, c>>>>)

\* Another job, another user, calls first and a userDefinedContext after it.
OtherEnvelope(c) ==
    JObj(<<<<CALLS, c>>,
           <<<<"requestId">>, JStr(<<"124ab1c">>)>>,
           <<<<"caller">>, JStr(<<"//bigquery.googleapis.com/projects/p/jobs/j">>)>>,
           <<<<"sessionUser">>, JStr(<<"other-user@test.com">>)>>,
           <<<<"userDefinedContext">>, JObj(<<>>)>>>>)

\* Bodies that are no JSON object with a calls array.
OddBodies ==
    {NotJson, JNull, JObj(<<>>), JList(<<>>), JNum(0), JNum(5), JBool(TRUE),
     JObj(<<<<<<"invalid">>, JStr(<<"data">>)>>>>),
     JList(<<JStr(CALLS)>>), JList(<<JNum(1)>>),
     JStr(CALLS), JStr(<<"x">>),
     Bare(JNull), Bare(JNum(5)), Bare(JBool(TRUE)), Bare(JStr(<<"4", "1">>)),
     Bare(JObj(<<>>)), Bare(JObj(<<<<<<"4", "1">>, JNum(1)>>>>))}

Bodies ==
    OddBodies
    \cup {Bare(JList(b)) : b \in FreeBatches \cup FixtureBatches}
    \cup {Envelope(JList(b)) : b \in FixtureBatches}
    \cup {OtherEnvelope(JList(<<Card(<<"4", "1">>), JList(<<>>), Card(<<"5", "5">>)>>)),
          OtherEnvelope(JList(<<Card(<<"4", "1">>), JNum(5)>>))}

\* test_cards of the round-trip script (two digits stand for each number).
test_cards == <<<<"4", "1">>, <<"5", "5">>, <<"3", "7">>>>

\* The card lists the script is run with: its own, and single values that
\* exercise the wrap-around of the backend's digit map and a non-digit text.
CardLists == {test_cards, <<<<"0">>>>, <<<<"9", "8">>>>, <<<<"n/a">>>>}

\* "calls": [[cc] for cc in credit_cards]
Payload(values) == Envelope(JList([i \in 1..Len(values) |-> JList(<<values[i]>>)]))

----------------------------------------------------------------------------
(* The handlers encrypt_credit_card and decrypt_credit_card *)

\* request.get_json(): the Flask deployment raises BadRequest on a body that
\* does not parse; the Cloud Function passes silent=True and gets None.
get_json(d, body) ==
    IF body = NotJson
    THEN IF d = "cloudfn" THEN Returned(None) ELSE Raised
    ELSE Returned(body)

JsonResponse(code, body) == [status |-> code, body |-> body]

\* Mutant: validation failures are answered 422.
InvalidRequest_Unprocessable ==
    JsonResponse(422, JObj(<<<<ERROR, JStr(<<"Invalid request format">>)>>>>))

InvalidRequest ==
    JsonResponse(400, JObj(<<<<ERROR, JStr(<<"Invalid request format">>)>>>>))

InternalServerError ==
    JsonResponse(500, JObj(<<<<ERROR, JStr(<<"Internal server error">>)>>>>))

RepliesResponse(r) == JsonResponse(200, JObj(<<<<REPLIES, JList(r)>>>>))

Finish(resp) == [k |-> "return", response |-> resp]

\* An exception raised inside the handler's try block, with its message.
Throw(e) == [k |-> "raise", exc |-> e]

BadRequest == <<"400 Bad Request">>
TypeError == <<"TypeError">>
KeyError == <<"KeyError: 0">>
RequestException == <<"requests.exceptions.RequestException">>

\* logger.error(f"Error in encrypt endpoint: {str(e)}")
Logged(e) == [t |-> "exception", v |-> e]

\* Mutant: the except clause answers with str(e).
HandlerExcept_Echo(e) == JsonResponse(500, JObj(<<<<ERROR, JStr(e)>>>>))

\* `except Exception as e:` logs str(e) and answers with the fixed body.
HandlerExcept(e) == InternalServerError

\* Mutant: a body without requestId is rejected.
HandlerStart_NeedsRequestId(d, body) ==
    LET g == get_json(d, body) IN
    IF g.raised THEN Throw(BadRequest)
    ELSE LET request_data == g.value IN
         IF ~Truthy(request_data) THEN Finish(InvalidRequest)
         ELSE IF ~CanContain(request_data) THEN Throw(TypeError)
         ELSE IF ~PyIn(CALLS, request_data) THEN Finish(InvalidRequest)
         ELSE IF ~PyIn(<<"requestId">>, request_data) THEN Finish(InvalidRequest)
         ELSE IF request_data.t # "obj" THEN Throw(TypeError)
         ELSE LET c == ObjGet(request_data, CALLS) IN
              IF ~Iterable(c) THEN Throw(TypeError)
              ELSE [k |-> "loop", calls |-> PyIter(c)]

\* From the top of the try block to the start of the for loop.
HandlerStart(d, body) ==
    LET g == get_json(d, body) IN
    IF g.raised THEN Throw(BadRequest)
    ELSE LET request_data == g.value IN
         IF ~Truthy(request_data) THEN Finish(InvalidRequest)
         ELSE IF ~CanContain(request_data) THEN Throw(TypeError)
         ELSE IF ~PyIn(CALLS, request_data) THEN Finish(InvalidRequest)
         ELSE IF request_data.t # "obj" THEN Throw(TypeError)
         ELSE LET c == ObjGet(request_data, CALLS) IN
              IF ~Iterable(c) THEN Throw(TypeError)
              ELSE [k |-> "loop", calls |-> PyIter(c)]

\* Mutant: the check `if not credit_card_number` is missing.
LoopBody_NoFalsyCheck(call) ==
    IF ~Truthy(call) THEN [k |-> "none"]
    ELSE IF ~HasLen(call) THEN Throw(TypeError)
    ELSE IF ~CanIndex0(call) THEN Throw(KeyError)
    ELSE [k |-> "client", value |-> PyStr(Index0(call))]

\* Mutant: the test is `if credit_card_number is None`.
LoopBody_IsNoneCheck(call) ==
    IF ~Truthy(call) THEN [k |-> "none"]
    ELSE IF ~HasLen(call) THEN Throw(TypeError)
    ELSE IF ~CanIndex0(call) THEN Throw(KeyError)
    ELSE LET first == Index0(call) IN
         IF first = None THEN [k |-> "none"]
         ELSE [k |-> "client", value |-> PyStr(first)]

\* Mutant: the last element of the entry is taken (call[-1]).
LoopBody_LastElement(call) ==
    IF ~Truthy(call) THEN [k |-> "none"]
    ELSE IF ~HasLen(call) THEN Throw(TypeError)
    ELSE IF ~CanIndex0(call) THEN Throw(KeyError)
    ELSE LET last == IF call.t = "str" THEN JStr(<<call.v[Len(call.v)]>>)
                     ELSE call.v[Len(call.v)] IN
         IF ~Truthy(last) THEN [k |-> "none"]
         ELSE [k |-> "client", value |-> PyStr(last)]

\* One iteration of the for loop up to the client call: append None, raise
\* (caught by the handler's except), or call the client with str(call[0]).
LoopBody(call) ==
    IF ~Truthy(call) THEN [k |-> "none"]
    ELSE IF ~HasLen(call) THEN Throw(TypeError)
    ELSE IF ~CanIndex0(call) THEN Throw(KeyError)
    ELSE LET first == Index0(call) IN
         IF ~Truthy(first) THEN [k |-> "none"]
         ELSE [k |-> "client", value |-> PyStr(first)]

\* Mutant: None is not appended.
AppendReply_DropNone(r, x) == IF x = None THEN r ELSE Append(r, x)

\* Mutant: replies.insert(0, x)
AppendReply_Front(r, x) == <<x>> \o r

\* replies.append(x)
AppendReply(r, x) == Append(r, x)

\* Mutant: the routes call each other's client method.
ClientPost_Swapped(route, self, value) ==
    IF route = "encrypt" THEN decrypt_post(self, value) ELSE encrypt_post(self, value)

ClientPost(route, self, value) ==
    IF route = "encrypt" THEN encrypt_post(self, value) ELSE decrypt_post(self, value)

ClientReturn(route, resp) ==
    IF route = "encrypt" THEN encrypt(resp) ELSE decrypt(resp)

\* Mutant: the health route reports whether Vault can be reached.
health_check_ProbesVault ==
    IF vault_reachable
    THEN JsonResponse(200, JObj(<<<<STATUS, JStr(<<"healthy">>)>>>>))
    ELSE JsonResponse(503, JObj(<<<<STATUS, JStr(<<"unhealthy">>)>>>>))

health_check == JsonResponse(200, JObj(<<<<STATUS, JStr(<<"healthy">>)>>>>))

\* The for loop as a function of the entries still to visit and of the
\* answers requests.post will give, in the order the calls are made: the
\* response and the requests posted.  With no answer left the call stays
\* in flight and there is no response yet.
RECURSIVE HandlerLoop(_, _, _, _, _, _)
HandlerLoop(route, self, todo, answers, reps, posts) ==
    IF todo = <<>>
    THEN [response |-> RepliesResponse(reps), posts |-> posts]
    ELSE LET b == LoopBody(Head(todo)) IN
         CASE b.k = "none" ->
                HandlerLoop(route, self, Tail(todo), answers,
                            AppendReply(reps, None), posts)
           [] b.k = "raise" ->
                [response |-> HandlerExcept(b.exc), posts |-> posts]
           [] b.k = "client" ->
                LET out == ClientPost(route, self, b.value) IN
                IF answers = <<>>
                THEN [response |-> [t |-> "nothing"], posts |-> Append(posts, out)]
                ELSE LET ret == ClientReturn(route, Head(answers)) IN
                     IF ret.raised
                     THEN [response |-> HandlerExcept(RequestException),
                           posts |-> Append(posts, out)]
                     ELSE HandlerLoop(route, self, Tail(todo), Tail(answers),
                                      AppendReply(reps, ret.value),
                                      Append(posts, out))

\* encrypt_credit_card / decrypt_credit_card from get_json to the return.
Handler(d, route, self, body, answers) ==
    LET r == HandlerStart(d, body) IN
    CASE r.k = "return" -> [response |-> r.response, posts |-> <<>>]
      [] r.k = "raise" -> [response |-> HandlerExcept(r.exc), posts |-> <<>>]
      [] r.k = "loop" -> HandlerLoop(route, self, r.calls, answers, <<>>, <<>>)

----------------------------------------------------------------------------
(* State machine *)

Nothing == [t |-> "nothing"]

Routes == {"encrypt", "decrypt"}

Environments ==
    {[n \in EnvNames |->
        CASE n = "VAULT_TOKEN" -> tok
          [] n = "VAULT_NAMESPACE" -> ns
          [] OTHER -> None] :
     tok \in {None, JStr(<<>>), JStr(<<"s.token">>)},
     ns \in {None, JStr(<<"team-a">>)}}

InitFrom(environments) ==
    /\ deploy \in {"flask", "cloudfn"}
    /\ environ \in environments
    /\ proc = "boot"
    /\ vault_client = NoClient
    /\ request = [w \in Workers |-> Nothing]
    /\ pc = [w \in Workers |-> "idle"]
    /\ calls = [w \in Workers |-> <<>>]
    /\ idx = [w \in Workers |-> 0]
    /\ replies = [w \in Workers |-> <<>>]
    /\ outbound = [w \in Workers |-> Nothing]
    /\ log = [w \in Workers |-> <<>>]
    /\ response = [w \in Workers |-> Nothing]
    /\ origin = [w \in Workers |-> Nothing]
    /\ caught = [w \in Workers |-> Nothing]
    /\ vault_reachable = TRUE
    /\ previous = [w \in Workers |-> 0]
    /\ connected = [w \in Workers |-> TRUE]

Init == InitFrom(Environments)

\* Module import: `vault_client = VaultTransformClient()`.  When __init__
\* raises, the import fails before any route is defined and the process ends.
Startup ==
    /\ proc = "boot"
    /\ LET self == ClientFields(environ, deploy) IN
       IF InitRaises(self)
       THEN proc' = "crashed" /\ vault_client' = NoClient
       ELSE proc' = "running" /\ vault_client' = self
    /\ UNCHANGED <<deploy, environ, request, pc, calls, idx, replies, outbound,
                   log, response, origin, caught, vault_reachable,
                   previous, connected>>

\* The URL rules of @app.route.
RulePath(route) ==
    CASE route = "encrypt" -> <<"/encrypt">>
      [] route = "decrypt" -> <<"/decrypt">>
      [] route = "health" -> <<"/health">>

\* A request with this path is given to the handler of route.
AcceptAt(w, path, route, body, org) ==
    /\ proc = "running"
    /\ request' = [request EXCEPT ![w] =
                     [path |-> path, route |-> route, body |-> body]]
    /\ pc' = [pc EXCEPT ![w] = "handle"]
    /\ calls' = [calls EXCEPT ![w] = <<>>]
    /\ idx' = [idx EXCEPT ![w] = 0]
    /\ replies' = [replies EXCEPT ![w] = <<>>]
    /\ outbound' = [outbound EXCEPT ![w] = Nothing]
    /\ log' = [log EXCEPT ![w] = <<>>]
    /\ response' = [response EXCEPT ![w] = Nothing]
    /\ origin' = [origin EXCEPT ![w] = org]
    /\ caught' = [caught EXCEPT ![w] = Nothing]
    /\ UNCHANGED <<deploy, environ, proc, vault_client, vault_reachable,
                   previous, connected>>

\* A request reaches a route of the running service.
Accept(w, route, body, org) == AcceptAt(w, RulePath(route), route, body, org)

\* POST /encrypt or POST /decrypt with any body.
ReceiveFrom(w, bodies) ==
    /\ pc[w] = "idle"
    /\ \E route \in Routes, body \in bodies : Accept(w, route, body, Nothing)

Receive(w) == ReceiveFrom(w, Bodies)

\* GET /health
ReceiveHealth(w) ==
    /\ pc[w] = "idle"
    /\ Accept(w, "health", NotJson, Nothing)

\* The round-trip script posts its test cards to /encrypt ...
ScriptEncrypt(w) ==
    /\ pc[w] = "idle"
    /\ \E cards \in CardLists :
         Accept(w, "encrypt", Payload([i \in 1..Len(cards) |-> JStr(cards[i])]),
                [phase |-> "encrypt", cards |-> cards])

AllGood(l) == \A i \in 1..Len(l) : l[i].resp = VaultGood(l[i].out)

\* ... and, on a 200, posts the replies to /decrypt.
ScriptDecrypt(w) ==
    /\ pc[w] = "done"
    /\ origin[w] # Nothing
    /\ origin[w].phase = "encrypt"
    /\ response[w].status = 200
    /\ Accept(w, "decrypt", Payload(ObjGet(response[w].body, REPLIES).v),
              [phase |-> "decrypt", cards |-> origin[w].cards,
               available |-> AllGood(log[w])])

\* Mutant: the health route reloads the client and loses the namespace.
HealthStep_ReloadsConfig(w) ==
    /\ pc[w] = "handle"
    /\ request[w].route = "health"
    /\ response' = [response EXCEPT ![w] = health_check]
    /\ pc' = [pc EXCEPT ![w] = "done"]
    /\ vault_client' = [vault_client EXCEPT !.vault_namespace = None]
    /\ UNCHANGED <<deploy, environ, proc, request, calls, idx,
                   replies, outbound, log, origin, caught, vault_reachable,
                   previous, connected>>

HealthStep(w) ==
    /\ pc[w] = "handle"
    /\ request[w].route = "health"
    /\ response' = [response EXCEPT ![w] = health_check]
    /\ pc' = [pc EXCEPT ![w] = "done"]
    /\ UNCHANGED <<deploy, environ, proc, vault_client, request, calls, idx,
                   replies, outbound, log, origin, caught, vault_reachable,
                   previous, connected>>

\* Mutant: after a request that ended in 500 the next one is refused.
HandlerEnter_CircuitBreaker(w) ==
    /\ pc[w] = "handle"
    /\ request[w].route \in Routes
    /\ LET r == IF previous[w] = 500 THEN Finish(InternalServerError)
                ELSE HandlerStart(deploy, request[w].body) IN
       CASE r.k = "return" ->
              /\ response' = [response EXCEPT ![w] = r.response]
              /\ pc' = [pc EXCEPT ![w] = "done"]
              /\ UNCHANGED <<calls, caught>>
         [] r.k = "raise" ->
              /\ caught' = [caught EXCEPT ![w] = Logged(r.exc)]
              /\ response' = [response EXCEPT ![w] = HandlerExcept(r.exc)]
              /\ pc' = [pc EXCEPT ![w] = "done"]
              /\ UNCHANGED calls
         [] r.k = "loop" ->
              /\ calls' = [calls EXCEPT ![w] = r.calls]
              /\ pc' = [pc EXCEPT ![w] = "loop"]
              /\ UNCHANGED <<response, caught>>
    /\ UNCHANGED <<deploy, environ, proc, vault_client, request, idx, replies,
                   outbound, log, origin, vault_reachable, previous, connected>>

\* get_json, validation, `calls = request_data['calls']`, `replies = []`.
HandlerEnter(w) ==
    /\ pc[w] = "handle"
    /\ request[w].route \in Routes
    /\ LET r == HandlerStart(deploy, request[w].body) IN
       CASE r.k = "return" ->
              /\ response' = [response EXCEPT ![w] = r.response]
              /\ pc' = [pc EXCEPT ![w] = "done"]
              /\ UNCHANGED <<calls, caught>>
         [] r.k = "raise" ->
              /\ caught' = [caught EXCEPT ![w] = Logged(r.exc)]
              /\ response' = [response EXCEPT ![w] = HandlerExcept(r.exc)]
              /\ pc' = [pc EXCEPT ![w] = "done"]
              /\ UNCHANGED calls
         [] r.k = "loop" ->
              /\ calls' = [calls EXCEPT ![w] = r.calls]
              /\ pc' = [pc EXCEPT ![w] = "loop"]
              /\ UNCHANGED <<response, caught>>
    /\ UNCHANGED <<deploy, environ, proc, vault_client, request, idx, replies,
                   outbound, log, origin, vault_reachable,
                   previous, connected>>

\* Mutant: the loop stops once the caller is gone.
LoopStep_StopsWhenGone(w) ==
    /\ pc[w] = "loop"
    /\ idx[w] < Len(calls[w])
    /\ LET b == IF connected[w] THEN LoopBody(calls[w][idx[w] + 1])
                ELSE Throw(<<"ClientDisconnected">>) IN
       CASE b.k = "none" ->
              /\ replies' = [replies EXCEPT ![w] = AppendReply(@, None)]
              /\ idx' = [idx EXCEPT ![w] = @ + 1]
              /\ UNCHANGED <<pc, outbound, response, caught>>
         [] b.k = "raise" ->
              /\ caught' = [caught EXCEPT ![w] = Logged(b.exc)]
              /\ response' = [response EXCEPT ![w] = HandlerExcept(b.exc)]
              /\ pc' = [pc EXCEPT ![w] = "done"]
              /\ UNCHANGED <<replies, idx, outbound>>
         [] b.k = "client" ->
              /\ outbound' = [outbound EXCEPT ![w] =
                                ClientPost(request[w].route, vault_client, b.value)]
              /\ pc' = [pc EXCEPT ![w] = "call"]
              /\ UNCHANGED <<replies, idx, response, caught>>
    /\ UNCHANGED <<deploy, environ, proc, vault_client, request, calls, log,
                   origin, vault_reachable, previous, connected>>

\* Mutant: an entry without a value is answered but never left (a while loop
\* whose `continue` skips the increment).
LoopStep_NoAdvance(w) ==
    /\ pc[w] = "loop"
    /\ idx[w] < Len(calls[w])
    /\ LET b == LoopBody(calls[w][idx[w] + 1]) IN
       CASE b.k = "none" ->
              /\ replies' = [replies EXCEPT ![w] = AppendReply(@, None)]
              /\ UNCHANGED <<idx, pc, outbound, response, caught>>
         [] b.k = "raise" ->
              /\ caught' = [caught EXCEPT ![w] = Logged(b.exc)]
              /\ response' = [response EXCEPT ![w] = HandlerExcept(b.exc)]
              /\ pc' = [pc EXCEPT ![w] = "done"]
              /\ UNCHANGED <<replies, idx, outbound>>
         [] b.k = "client" ->
              /\ outbound' = [outbound EXCEPT ![w] =
                                ClientPost(request[w].route, vault_client, b.value)]
              /\ pc' = [pc EXCEPT ![w] = "call"]
              /\ UNCHANGED <<replies, idx, response, caught>>
    /\ UNCHANGED <<deploy, environ, proc, vault_client, request, calls, log,
                   origin, vault_reachable, previous, connected>>

\* One iteration of `for call in calls` up to the append or the requests.post.
LoopStep(w) ==
    /\ pc[w] = "loop"
    /\ idx[w] < Len(calls[w])
    /\ LET b == LoopBody(calls[w][idx[w] + 1]) IN
       CASE b.k = "none" ->
              /\ replies' = [replies EXCEPT ![w] = AppendReply(@, None)]
              /\ idx' = [idx EXCEPT ![w] = @ + 1]
              /\ UNCHANGED <<pc, outbound, response, caught>>
         [] b.k = "raise" ->
              /\ caught' = [caught EXCEPT ![w] = Logged(b.exc)]
              /\ response' = [response EXCEPT ![w] = HandlerExcept(b.exc)]
              /\ pc' = [pc EXCEPT ![w] = "done"]
              /\ UNCHANGED <<replies, idx, outbound>>
         [] b.k = "client" ->
              /\ outbound' = [outbound EXCEPT ![w] =
                                ClientPost(request[w].route, vault_client, b.value)]
              /\ pc' = [pc EXCEPT ![w] = "call"]
              /\ UNCHANGED <<replies, idx, response, caught>>
    /\ UNCHANGED <<deploy, environ, proc, vault_client, request, calls, log,
                   origin, vault_reachable,
                   previous, connected>>

\* requests.post returns or raises; the client returns; the handler appends.
\* With no route to Vault requests.post raises; otherwise the backend answers.
VaultReplyFrom(w, answers) ==
    /\ pc[w] = "call"
    /\ \E resp \in (IF vault_reachable THEN answers ELSE {ConnectionError}) :
         LET ret == ClientReturn(request[w].route, resp) IN
         /\ log' = [log EXCEPT ![w] =
                      Append(@, [pos |-> idx[w] + 1, out |-> outbound[w],
                                 resp |-> resp, ret |-> ret,
                                 reachable |-> vault_reachable,
                                 waiting |-> connected[w]])]
         /\ IF ret.raised
            THEN /\ caught' = [caught EXCEPT ![w] = Logged(RequestException)]
                 /\ response' = [response EXCEPT ![w] =
                                    HandlerExcept(RequestException)]
                 /\ pc' = [pc EXCEPT ![w] = "done"]
                 /\ UNCHANGED <<replies, idx>>
            ELSE /\ replies' = [replies EXCEPT ![w] = AppendReply(@, ret.value)]
                 /\ idx' = [idx EXCEPT ![w] = @ + 1]
                 /\ pc' = [pc EXCEPT ![w] = "loop"]
                 /\ UNCHANGED <<response, caught>>
    /\ outbound' = [outbound EXCEPT ![w] = Nothing]
    /\ UNCHANGED <<deploy, environ, proc, vault_client, request, calls, origin,
                   vault_reachable,
                   previous, connected>>

\* Mutant: a call that gave no value is posted a second time.
VaultReply_RetryOnce(w) ==
    /\ pc[w] = "call"
    /\ \E resp \in VaultResponses(outbound[w]) :
         LET ret == ClientReturn(request[w].route, resp) IN
         /\ log' = [log EXCEPT ![w] =
                      Append(@, [pos |-> idx[w] + 1, out |-> outbound[w],
                                 resp |-> resp, ret |-> ret,
                                 reachable |-> vault_reachable,
                                 waiting |-> connected[w]])]
         /\ IF ret.value = None /\ \A j \in 1..Len(log[w]) : log[w][j].pos # idx[w] + 1
            THEN UNCHANGED <<replies, idx, pc, outbound>>
            ELSE /\ replies' = [replies EXCEPT ![w] = AppendReply(@, ret.value)]
                 /\ idx' = [idx EXCEPT ![w] = @ + 1]
                 /\ pc' = [pc EXCEPT ![w] = "loop"]
                 /\ outbound' = [outbound EXCEPT ![w] = Nothing]
    /\ UNCHANGED <<deploy, environ, proc, vault_client, request, calls, origin,
                   response, caught, vault_reachable,
                   previous, connected>>

VaultReply(w) == VaultReplyFrom(w, VaultResponses(outbound[w]))

\* Mutant: replies is a module-level list that every request appends to.
LoopExit_SharedReplies(w) ==
    /\ pc[w] = "loop"
    /\ idx[w] = Len(calls[w])
    /\ response' = [response EXCEPT ![w] =
                      RepliesResponse(replies[1] \o replies[2])]
    /\ pc' = [pc EXCEPT ![w] = "done"]
    /\ UNCHANGED <<deploy, environ, proc, vault_client, request, calls, idx,
                   replies, outbound, log, origin, caught, vault_reachable,
                   previous, connected>>

\* `return jsonify({"replies": replies})` after the loop.
LoopExit(w) ==
    /\ pc[w] = "loop"
    /\ idx[w] = Len(calls[w])
    /\ response' = [response EXCEPT ![w] = RepliesResponse(replies[w])]
    /\ pc' = [pc EXCEPT ![w] = "done"]
    /\ UNCHANGED <<deploy, environ, proc, vault_client, request, calls, idx,
                   replies, outbound, log, origin, caught, vault_reachable,
                   previous, connected>>

\* The handler's frame is gone: nothing of the request is kept.
Forget(w) ==
    /\ pc[w] = "done"
    /\ request' = [request EXCEPT ![w] = Nothing]
    /\ pc' = [pc EXCEPT ![w] = "idle"]
    /\ calls' = [calls EXCEPT ![w] = <<>>]
    /\ idx' = [idx EXCEPT ![w] = 0]
    /\ replies' = [replies EXCEPT ![w] = <<>>]
    /\ log' = [log EXCEPT ![w] = <<>>]
    /\ response' = [response EXCEPT ![w] = Nothing]
    /\ origin' = [origin EXCEPT ![w] = Nothing]
    /\ caught' = [caught EXCEPT ![w] = Nothing]
    /\ connected' = [connected EXCEPT ![w] = TRUE]
    /\ UNCHANGED <<deploy, environ, proc, vault_client, outbound, vault_reachable>>

\* The response has been sent.
Deliver(w) == Forget(w) /\ UNCHANGED previous

Serve(w) ==
    \/ Receive(w)
    \/ ReceiveHealth(w)
    \/ ScriptEncrypt(w)
    \/ ScriptDecrypt(w)
    \/ HealthStep(w)
    \/ HandlerEnter(w)
    \/ LoopStep(w)
    \/ VaultReply(w)
    \/ LoopExit(w)
    \/ Deliver(w)

\* One execution context: requests are handled one after the other.
Next == Startup \/ Serve(1)

Spec == Init /\ [][Next]_vars

----------------------------------------------------------------------------
(* The service while the route to Vault comes and goes *)

\* The network path to VAULT_URL is lost, or restored, at any moment.
VaultDown ==
    /\ vault_reachable
    /\ vault_reachable' = FALSE
    /\ UNCHANGED <<deploy, environ, proc, vault_client, request, pc, calls, idx,
                   replies, outbound, log, response, origin, caught,
                   previous, connected>>

VaultUp ==
    /\ ~vault_reachable
    /\ vault_reachable' = TRUE
    /\ UNCHANGED <<deploy, environ, proc, vault_client, request, pc, calls, idx,
                   replies, outbound, log, response, origin, caught,
                   previous, connected>>

OutageBodies ==
    {NotJson,
     Bare(JList(<<Card(<<"4", "1">>)>>)),
     Bare(JList(<<Card(<<"4", "1">>), JList(<<>>), Card(<<"5", "5">>)>>))}

OutageAnswers(out) == {VaultGood(out)} \cup VaultFailures

OutageReceive(w) == ReceiveFrom(w, OutageBodies)

OutageVaultReply(w) == VaultReplyFrom(w, OutageAnswers(outbound[w]))

\* The steps of the thread that runs a handler: requests.post has
\* timeout=30, so each of them ends.
Handle(w) ==
    \/ HealthStep(w)
    \/ HandlerEnter(w)
    \/ LoopStep(w)
    \/ OutageVaultReply(w)
    \/ LoopExit(w)

OutageServe(w) ==
    \/ OutageReceive(w)
    \/ ReceiveHealth(w)
    \/ Handle(w)
    \/ Deliver(w)

NextOutage == Startup \/ VaultDown \/ VaultUp \/ OutageServe(1)

SpecOutage == Init /\ [][NextOutage]_vars /\ WF_vars(Handle(1))

----------------------------------------------------------------------------
(* Two requests handled at the same time (threads of the Flask server,     *)
(* concurrent invocations of the Cloud Function instance)                   *)

ConcurrentBodies ==
    {Bare(JList(<<Card(<<"4", "1">>), Card(<<"5", "5">>)>>)),
     Bare(JList(<<Card(<<"3", "7">>), JList(<<>>)>>)),
     Bare(JList(<<JNum(5)>>))}

ConcurrentAnswers(out) == {VaultGood(out), Http(403, "permission denied", NotJson)}

ConcurrentReceive(w) == ReceiveFrom(w, ConcurrentBodies)

ConcurrentVaultReply(w) == VaultReplyFrom(w, ConcurrentAnswers(outbound[w]))

ConcurrentServe(w) ==
    \/ ConcurrentReceive(w)
    \/ HandlerEnter(w)
    \/ LoopStep(w)
    \/ ConcurrentVaultReply(w)
    \/ LoopExit(w)
    \/ Deliver(w)

\* The steps of the two handlers interleave in any order.
NextConcurrent == Startup \/ ConcurrentServe(1) \/ ConcurrentServe(2)

SpecConcurrent == Init /\ [][NextConcurrent]_vars

----------------------------------------------------------------------------
(* A session: requests one after the other, through the routes or through  *)
(* the Cloud Function entry point, from callers that may stop waiting       *)

\* The environments with a token, and one whose VAULT_NAMESPACE is empty.
SessionEnvironments ==
    Environments
    \cup {[n \in EnvNames |->
             CASE n = "VAULT_TOKEN" -> JStr(<<"s.token">>)
               [] n = "VAULT_NAMESPACE" -> JStr(<<>>)
               [] OTHER -> None]}

SessionBatches ==
    {<<Card(<<"4", "1">>), JList(<<>>), Card(<<"5", "5">>)>>,
     <<JList(<<JNum(0)>>), JList(<<JNull>>), JList(<<JStr(<<>>)>>), JNull,
       JList(<<JBool(FALSE)>>), JList(<<>>)>>,
     <<Card(<<"0">>)>>,
     <<JList(<<JNum(0)>>)>>,
     <<Card(<<"4", "1">>)>>,
     <<JList(<<JNum(41)>>)>>,
     <<JList(<<JStr(<<"4", "1">>), JStr(<<"9">>)>>)>>,
     <<JList(<<JNum(41), JNull, JStr(<<"8">>)>>), JList(<<JNull, JStr(<<"9">>)>>)>>,
     <<JNum(5)>>}

SessionBodies == {NotJson, JObj(<<>>)} \cup {Bare(JList(b)) : b \in SessionBatches}

SessionAnswers(out) == {VaultGood(out)} \cup VaultFailures

SessionReceive(w) == ReceiveFrom(w, SessionBodies)

\* request.path values given to the Cloud Function.
Paths ==
    {<<"/encrypt">>, <<"/decrypt">>, <<"/health">>, <<"/">>, <<"/other">>,
     <<"/v1", "/encrypt">>, <<"/encrypt", "ed">>, <<"/health", "z">>,
     <<"/decrypt", "/encrypt">>, <<"/health", "/decrypt">>,
     <<"/encrypt", "/health">>}

EntryBodies == {JObj(<<>>), Bare(JList(<<Card(<<"4", "1">>)>>))}

\* Mutant: the path is tested for /decrypt before /encrypt.
vault_transform_bigquery_DecryptFirst(path) ==
    IF Contains(path, <<"/decrypt">>) THEN "decrypt"
    ELSE IF Contains(path, <<"/encrypt">>) THEN "encrypt"
    ELSE IF Contains(path, <<"/health">>) THEN "health"
    ELSE "encrypt"

\* The if / elif chain of the Cloud Function's entry point: the handler it
\* calls for a path.
vault_transform_bigquery(path) ==
    IF Contains(path, <<"/encrypt">>) THEN "encrypt"
    ELSE IF Contains(path, <<"/decrypt">>) THEN "decrypt"
    ELSE IF Contains(path, <<"/health">>) THEN "health"
    ELSE "encrypt"

\* The Cloud Function is invoked with some path and body.
EntryPoint(w) ==
    /\ deploy = "cloudfn"
    /\ pc[w] = "idle"
    /\ \E path \in Paths, body \in EntryBodies :
         AcceptAt(w, path, vault_transform_bigquery(path), body, Nothing)

\* The caller times out or disconnects while its request is handled.
ClientGone(w) ==
    /\ pc[w] \in {"handle", "loop", "call"}
    /\ connected[w]
    /\ connected' = [connected EXCEPT ![w] = FALSE]
    /\ UNCHANGED <<deploy, environ, proc, vault_client, request, pc, calls, idx,
                   replies, outbound, log, response, origin, caught,
                   vault_reachable, previous>>

SessionVaultReply(w) == VaultReplyFrom(w, SessionAnswers(outbound[w]))

\* The response has been sent; its status is noted for the next request.
SessionDeliver(w) ==
    /\ Forget(w)
    /\ previous' = [previous EXCEPT ![w] = response[w].status]

SessionServe(w) ==
    \/ SessionReceive(w)
    \/ ReceiveHealth(w)
    \/ EntryPoint(w)
    \/ ClientGone(w)
    \/ HealthStep(w)
    \/ HandlerEnter(w)
    \/ LoopStep(w)
    \/ SessionVaultReply(w)
    \/ LoopExit(w)
    \/ SessionDeliver(w)

NextSession == Startup \/ SessionServe(1)

SpecSession == InitFrom(SessionEnvironments) /\ [][NextSession]_vars

----------------------------------------------------------------------------
(* Vocabulary of the properties *)

\* The handler of /encrypt or /decrypt has returned its response.
Handled(w) == pc[w] = "done" /\ request[w].route \in Routes

\* The request body is a JSON object whose calls is an array.
IsBatch(w) ==
    /\ request[w] # Nothing
    /\ request[w].body.t = "obj"
    /\ ObjHas(request[w].body, CALLS)
    /\ ObjGet(request[w].body, CALLS).t = "list"

SentCalls(w) == ObjGet(request[w].body, CALLS).v

\* ... and every entry is a list or missing (null), as BigQuery sends them.
ContractBatch(w) ==
    /\ IsBatch(w)
    /\ \A i \in 1..Len(SentCalls(w)) : SentCalls(w)[i].t \in {"null", "list"}

EmptyEntry(e) == e = JNull \/ e = JList(<<>>)

\* The entry has a first element and it is truthy.
Carries(e) == e.t = "list" /\ Len(e.v) > 0 /\ Truthy(e.v[1])

HasReplies(w) ==
    /\ response[w] # Nothing
    /\ ObjHas(response[w].body, REPLIES)
    /\ ObjGet(response[w].body, REPLIES).t = "list"

Replies(w) == ObjGet(response[w].body, REPLIES).v

ExchangesAt(w, i) == {j \in 1..Len(log[w]) : log[w][j].pos = i}

IsNon200(resp) == ~resp.exc /\ resp.status_code # 200

\* The backend's function behind a route.
F(route, s) == IF route = "encrypt" THEN Enc(s) ELSE Dec(s)

\* The reply of an entry when nothing fails.
Ideal(route, e) == IF Carries(e) THEN JStr(F(route, PyStr(e.v[1]))) ELSE None

----------------------------------------------------------------------------
(* C1: for every batch of list-or-missing entries sent to /encrypt or      *)
(* /decrypt, whatever the Vault exchanges did, the response carries a      *)
(* replies list as long as calls, and reply i is what the client returned  *)
(* for the value of call i (None where call i carries no value).           *)
C1_LengthAndOrder ==
    \A w \in Workers :
        (Handled(w) /\ ContractBatch(w)) =>
            /\ HasReplies(w)
            /\ Len(Replies(w)) = Len(SentCalls(w))
            /\ \A i \in 1..Len(SentCalls(w)) :
                 IF Carries(SentCalls(w)[i])
                 THEN \E j \in ExchangesAt(w, i) :
                        /\ SentValue(log[w][j].out) = PyStr(SentCalls(w)[i].v[1])
                        /\ Replies(w)[i] = log[w][j].ret.value
                 ELSE Replies(w)[i] = None

\* A batch of two values whose first Vault call failed and second succeeded.
C1_Witness ==
    \E w \in Workers :
        /\ Handled(w) /\ ContractBatch(w) /\ HasReplies(w)
        /\ Len(SentCalls(w)) = 2
        /\ Len(log[w]) = 2
        /\ log[w][1].resp \in VaultFailures
        /\ Replies(w)[1] = None
        /\ Replies(w)[2] # None

(* C2: in a batch, reply i is None when calls[i] is empty, missing or has a *)
(* falsy first element; otherwise it is f(str(calls[i][0])) when the        *)
(* backend answered as the function f, and None when the exchange failed.   *)
C2_ReplyValues ==
    \A w \in Workers :
        (Handled(w) /\ ContractBatch(w)) =>
            /\ HasReplies(w)
            /\ \A i \in 1..Len(SentCalls(w)) :
                 LET e == SentCalls(w)[i] IN
                 IF Carries(e)
                 THEN \E j \in ExchangesAt(w, i) :
                        /\ log[w][j].resp = VaultGood(log[w][j].out)
                             => Replies(w)[i] = JStr(F(request[w].route, PyStr(e.v[1])))
                        /\ log[w][j].resp \in VaultFailures
                             => Replies(w)[i] = None
                 ELSE Replies(w)[i] = None

\* The example: [["41"], [], ["55"]] against the digit map gives
\* ["74", null, "88"].
C2_Witness ==
    \E w \in Workers :
        /\ Handled(w)
        /\ request[w].route = "encrypt"
        /\ request[w].body = Bare(JList(<<Card(<<"4", "1">>), JList(<<>>),
                                          Card(<<"5", "5">>)>>))
        /\ response[w] = RepliesResponse(<<JStr(<<"7", "4">>), None,
                                           JStr(<<"8", "8">>)>>)

\* The request violates the validation rule of the specification.
ViolatesValidation(body) ==
    \/ body = NotJson
    \/ body.t # "obj"
    \/ ~ObjHas(body, CALLS)
    \/ ObjGet(body, CALLS).t # "list"

(* C3: a body that is not JSON, has no calls key or whose calls is no array *)
(* is answered with 400 and an error object; every other request with 200   *)
(* and a replies body.                                                      *)
C3_Validation ==
    \A w \in Workers :
        Handled(w) =>
            IF ViolatesValidation(request[w].body)
            THEN response[w].status = 400 /\ ObjHas(response[w].body, ERROR)
            ELSE response[w].status = 200 /\ HasReplies(w)

(* C4: when exactly one Vault exchange of a batch got a non-200 answer and  *)
(* the others were served, the reply at that position is None and every     *)
(* other reply is the one of the failure-free run.                          *)
C4_SingleFailure ==
    \A w \in Workers :
        (Handled(w) /\ ContractBatch(w)) =>
            LET fails == {j \in 1..Len(log[w]) : IsNon200(log[w][j].resp)}
                rest == (1..Len(log[w])) \ fails
            IN  (/\ Cardinality(fails) = 1
                 /\ \A j \in rest : log[w][j].resp = VaultGood(log[w][j].out))
                =>
                /\ HasReplies(w)
                /\ Len(Replies(w)) = Len(SentCalls(w))
                /\ \A i \in 1..Len(SentCalls(w)) :
                     Replies(w)[i] =
                        IF \E j \in fails : log[w][j].pos = i THEN None
                        ELSE Ideal(request[w].route, SentCalls(w)[i])

\* The first of two values failed with a non-200 status, the second got its
\* transformed value.
C4_Witness ==
    \E w \in Workers :
        /\ Handled(w) /\ ContractBatch(w) /\ HasReplies(w)
        /\ Len(SentCalls(w)) = 2 /\ Len(log[w]) = 2
        /\ IsNon200(log[w][1].resp)
        /\ log[w][2].resp = VaultGood(log[w][2].out)
        /\ Replies(w)[1] = None
        /\ Replies(w)[2] = Ideal(request[w].route, SentCalls(w)[2])
        /\ Replies(w)[2] # None

\* The exchange ended in an UpstreamFailure: Vault unreachable or non-200.
UpstreamFailure(resp) == resp.exc \/ resp.status_code # 200

(* C5: a Vault call that fails never ends the batch: after any failed      *)
(* exchange the loop goes on, and a batch of list-or-missing entries is     *)
(* answered with 200 and one reply per call whatever subset of its Vault    *)
(* calls failed, all of them included.                                      *)
C5_FailuresKeep200 ==
    \A w \in Workers :
        /\ (pc[w] \in {"loop", "call", "done"} /\ ContractBatch(w)
            /\ Len(log[w]) > 0
            /\ UpstreamFailure(log[w][Len(log[w])].resp))
           => (/\ idx[w] >= log[w][Len(log[w])].pos
               /\ Len(replies[w]) = idx[w]
               /\ pc[w] = "done" => idx[w] = Len(SentCalls(w)))
        /\ (Handled(w) /\ ContractBatch(w)
            /\ \E j \in 1..Len(log[w]) : UpstreamFailure(log[w][j].resp))
           => (response[w].status = 200 /\ HasReplies(w)
               /\ Len(Replies(w)) = Len(SentCalls(w)))

\* Every Vault call of a batch of two failed, one of them unreachable, and
\* the response is 200 with two nulls.
C5_Witness ==
    \E w \in Workers :
        /\ Handled(w) /\ ContractBatch(w)
        /\ Len(log[w]) = 2 /\ Len(SentCalls(w)) = 2
        /\ log[w][1].resp.exc
        /\ IsNon200(log[w][2].resp)
        /\ response[w] = RepliesResponse(<<None, None>>)

(* C6: an empty or missing entry at position i has None at position i of    *)
(* the replies, while they are built and in the response, whatever the      *)
(* neighbouring entries are and whatever their Vault calls returned.        *)
C6_EmptyEntriesNull ==
    \A w \in Workers :
        (pc[w] \in {"loop", "call", "done"} /\ IsBatch(w)) =>
            /\ \A i \in 1..Len(replies[w]) :
                 EmptyEntry(SentCalls(w)[i]) => replies[w][i] = None
            /\ (pc[w] = "done" /\ response[w].status = 200) =>
                 /\ HasReplies(w)
                 /\ \A i \in 1..Len(SentCalls(w)) :
                      EmptyEntry(SentCalls(w)[i]) =>
                          (i <= Len(Replies(w)) /\ Replies(w)[i] = None)

\* An empty entry between a value that was served and a value whose call
\* failed.
C6_Witness ==
    \E w \in Workers :
        /\ Handled(w) /\ IsBatch(w) /\ HasReplies(w)
        /\ Len(SentCalls(w)) = 3
        /\ EmptyEntry(SentCalls(w)[2])
        /\ Replies(w)[1] # None
        /\ Replies(w)[2] = None
        /\ Len(log[w]) = 2
        /\ UpstreamFailure(log[w][2].resp)

\* The answer is no 200 with a JSON object whose data is an object.
MalformedBody(resp) ==
    /\ ~resp.exc
    /\ resp.status_code = 200
    /\ \/ resp.json = NotJson
       \/ resp.json.t # "obj"
       \/ (ObjHas(resp.json, DATA) /\ ObjGet(resp.json, DATA).t # "obj")

(* C7: encrypt and decrypt never raise: every exchange returns to the       *)
(* handler, and a non-200 status, a network error or a malformed body is    *)
(* returned as None, for every value sent.                                  *)
C7_ClientNeverRaises ==
    \A w \in Workers :
        \A j \in 1..Len(log[w]) :
            /\ ~log[w][j].ret.raised
            /\ (UpstreamFailure(log[w][j].resp) \/ MalformedBody(log[w][j].resp))
               => log[w][j].ret.value = None

\* A /decrypt batch in which one exchange raised inside requests.post and
\* another returned a body that is no JSON; both came back as None.
C7_Witness ==
    \E w \in Workers :
        /\ pc[w] = "done"
        /\ request[w].route = "decrypt"
        /\ Len(log[w]) = 2
        /\ log[w][1].resp.exc
        /\ MalformedBody(log[w][2].resp)
        /\ log[w][2].ret = Returned(None)
        /\ response[w].status = 200

\* The result field of a route.
ResultField(route) == IF route = "encrypt" THEN ENCODED_VALUE ELSE DECODED_VALUE

(* C8: on a 200 whose body is a JSON object (with data an object, or no    *)
(* data), encrypt returns exactly data.encoded_value and decrypt exactly    *)
(* data.decoded_value, whatever its type, and None when the field is absent.*)
C8_ReturnsField ==
    \A w \in Workers :
        \A j \in 1..Len(log[w]) :
            LET resp == log[w][j].resp
                field == ResultField(request[w].route)
                present == /\ ObjHas(resp.json, DATA)
                           /\ ObjHas(ObjGet(resp.json, DATA), field)
            IN  (/\ ~resp.exc /\ resp.status_code = 200
                 /\ resp.json.t = "obj"
                 /\ ObjHas(resp.json, DATA) => ObjGet(resp.json, DATA).t = "obj")
                =>
                /\ ~log[w][j].ret.raised
                /\ log[w][j].ret.value =
                      IF present THEN ObjGet(ObjGet(resp.json, DATA), field)
                      ELSE None

\* decrypt returned the decoded_value of one answer and None for an answer
\* that carries only the field of the other operation.
C8_Witness ==
    \E w \in Workers :
        /\ request[w] # Nothing
        /\ request[w].route = "decrypt"
        /\ Len(log[w]) = 2
        /\ log[w][1].resp = VaultGood(log[w][1].out)
        /\ log[w][1].ret = Returned(JStr(Dec(SentValue(log[w][1].out))))
        /\ log[w][1].ret.value # JStr(SentValue(log[w][1].out))
        /\ ~log[w][2].resp.exc
        /\ log[w][2].resp.status_code = 200
        /\ log[w][2].resp.text = "other field"
        /\ log[w][2].ret = Returned(None)

(* C9: round trip.  When the backend served every call of an /encrypt batch *)
(* of non-empty strings and every call of the /decrypt batch made of its    *)
(* replies, the /decrypt response is 200 and its replies are the original   *)
(* strings in the original positions.                                       *)
C9_RoundTrip ==
    \A w \in Workers :
        (/\ Handled(w)
         /\ origin[w] # Nothing
         /\ origin[w].phase = "decrypt"
         /\ origin[w].available
         /\ AllGood(log[w]))
        => response[w] =
             RepliesResponse([i \in 1..Len(origin[w].cards) |->
                                 JStr(origin[w].cards[i])])

\* The script's three cards came back from /decrypt, each through its own
\* pair of served exchanges.
C9_Witness ==
    \E w \in Workers :
        /\ Handled(w)
        /\ origin[w] # Nothing
        /\ origin[w].phase = "decrypt"
        /\ origin[w].available
        /\ AllGood(log[w])
        /\ origin[w].cards = test_cards
        /\ Len(log[w]) = 3
        /\ SentValue(log[w][1].out) = Enc(test_cards[1])
        /\ SentValue(log[w][1].out) # test_cards[1]
        /\ HasReplies(w)
        /\ Replies(w)[3] = JStr(test_cards[3])

(* C10: with VAULT_TOKEN absent (or empty) the construction of the client   *)
(* fails, the process never runs, and no worker ever accepts, handles or    *)
(* answers a request of any route.                                          *)
C10_NoTokenNoService ==
    ~Truthy(EnvGet(environ, "VAULT_TOKEN", None)) =>
        /\ proc # "running"
        /\ vault_client = NoClient
        /\ \A w \in Workers :
             pc[w] = "idle" /\ request[w] = Nothing /\ response[w] = Nothing

\* The import failed on a missing token.
C10_Witness ==
    /\ environ["VAULT_TOKEN"] = None
    /\ proc = "crashed"


\* The exchanges of the current request made while Vault was unreachable.
Unreachable(w) == {j \in 1..Len(log[w]) : ~log[w][j].reachable}

(* C11: once started the process keeps running whatever happens to the     *)
(* route to Vault; every exchange attempted while Vault is unreachable      *)
(* makes the client return None, which becomes the reply of that position;  *)
(* and every request that entered a handler gets its response.              *)
C11_SurvivesOutage ==
    /\ [][proc = "running" => proc' = "running"]_vars
    /\ [](\A w \in Workers : \A j \in Unreachable(w) :
            /\ ~log[w][j].ret.raised
            /\ log[w][j].ret.value = None
            /\ Len(replies[w]) >= log[w][j].pos
            /\ replies[w][log[w][j].pos] = None
            /\ Handled(w) => /\ HasReplies(w)
                             /\ Replies(w)[log[w][j].pos] = None)
    /\ \A w \in Workers :
         (pc[w] = "handle") ~> (pc[w] = "done" /\ response[w] # Nothing)

\* Vault was lost in the middle of a request: the first value was served,
\* the second was not.
C11_Witness ==
    \E w \in Workers :
        /\ Handled(w)
        /\ Len(log[w]) = 2
        /\ log[w][1].reachable /\ log[w][1].resp = VaultGood(log[w][1].out)
        /\ ~log[w][2].reachable
        /\ request[w].route = "encrypt"
        /\ response[w] = RepliesResponse(<<JStr(<<"7", "4">>), None, None>>)

(* C12: a GET /health accepted by the running service is answered 200 with  *)
(* {"status": "healthy"} whether Vault is reachable or not, and from its    *)
(* arrival to its response no request to Vault is made.                     *)
C12_HealthAlwaysHealthy ==
    \A w \in Workers :
        (request[w] # Nothing /\ request[w].route = "health") =>
            /\ outbound[w] = Nothing
            /\ log[w] = <<>>
            /\ pc[w] \in {"handle", "done"}
            /\ pc[w] = "done" =>
                 response[w] = [status |-> 200,
                                body |-> JObj(<<<<STATUS, JStr(<<"healthy">>)>>>>)]

\* A health request answered while Vault is unreachable.
C12_Witness ==
    \E w \in Workers :
        /\ request[w] # Nothing
        /\ request[w].route = "health"
        /\ pc[w] = "done"
        /\ ~vault_reachable
        /\ response[w].status = 200

GenericError ==
    [status |-> 500,
     body |-> JObj(<<<<ERROR, JStr(<<"Internal server error">>)>>>>)]

(* C13: when an exception was raised inside the handler of /encrypt or      *)
(* /decrypt (by get_json, by the validation, by the loop), the response is  *)
(* 500 with exactly {"error": "Internal server error"}, which holds nothing *)
(* of the exception's message; and a 500 is only ever this response.        *)
C13_GenericError ==
    \A w \in Workers :
        Handled(w) =>
            /\ HandlerStart(deploy, request[w].body).k = "raise"
                 => caught[w] # Nothing
            /\ caught[w] # Nothing =>
                 /\ response[w] = GenericError
                 /\ \A i \in 1..Len(response[w].body.v) :
                      response[w].body.v[i][2] # JStr(caught[w].v)
            /\ response[w].status = 500 =>
                 caught[w] # Nothing /\ response[w] = GenericError

\* A batch whose second entry is the number 5: len(call) raises TypeError
\* after the first value was sent to Vault.
C13_Witness ==
    \E w \in Workers :
        /\ Handled(w)
        /\ caught[w] = Logged(TypeError)
        /\ Len(log[w]) = 1
        /\ response[w].status = 500

\* The answers requests.post gave to the current request, in order.
Answers(w) == [j \in 1..Len(log[w]) |-> log[w][j].resp]

\* The requests posted for the current request, in order.
Posts(w) == [j \in 1..Len(log[w]) |-> log[w][j].out]

\* The exchange did not produce a value: unreachable, non-200 or malformed.
Failing(resp) == UpstreamFailure(resp) \/ MalformedBody(resp)

\* The same run with every failing answer replaced by one and the same
\* failure: the status code and the body of the failing answers are erased.
Blurred(w) ==
    [j \in 1..Len(log[w]) |->
        IF Failing(log[w][j].resp) THEN ConnectionError ELSE log[w][j].resp]

(* C14: the response of a request is the one of the run in which every     *)
(* failing Vault answer (unreachable, non-200, malformed) is replaced by    *)
(* one fixed failure; so two runs of the same request that differ only in   *)
(* the status code and body of their failing answers get the same response. *)
C14_FailureDetailIgnored ==
    \A w \in Workers :
        Handled(w) =>
            response[w] = Handler(deploy, request[w].route, vault_client,
                                  request[w].body, Blurred(w)).response

\* A batch of two values: the first call was answered 403, the second was
\* never connected; both replies are null.
C14_Witness ==
    \E w \in Workers :
        /\ Handled(w)
        /\ request[w].route = "encrypt"
        /\ Len(log[w]) = 2
        /\ IsNon200(log[w][1].resp) /\ log[w][1].resp.status_code = 403
        /\ log[w][2].resp = ConnectionError
        /\ response[w] = RepliesResponse(<<None, None>>)

(* C15: while and after a batch of list-or-missing entries is handled, no   *)
(* position has more than one Vault exchange and a position without a value *)
(* has none; once the response is built every position with a value has     *)
(* exactly one, and an exchange that failed left None as the reply of its   *)
(* position.                                                                *)
C15_NoRetry ==
    \A w \in Workers :
        (ContractBatch(w) /\ request[w].route \in Routes) =>
            /\ \A i \in 1..Len(SentCalls(w)) :
                 Cardinality(ExchangesAt(w, i)) <=
                    IF Carries(SentCalls(w)[i]) THEN 1 ELSE 0
            /\ \A j \in 1..Len(log[w]) : log[w][j].pos \in 1..Len(SentCalls(w))
            /\ Handled(w) =>
                 /\ \A i \in 1..Len(SentCalls(w)) :
                      Cardinality(ExchangesAt(w, i)) =
                         IF Carries(SentCalls(w)[i]) THEN 1 ELSE 0
                 /\ HasReplies(w)
                 /\ \A j \in 1..Len(log[w]) :
                      Failing(log[w][j].resp) =>
                          /\ Len(Replies(w)) >= log[w][j].pos
                          /\ Replies(w)[log[w][j].pos] = None

\* Two values, the first failed and the second was served: two exchanges.
C15_Witness ==
    \E w \in Workers :
        /\ Handled(w) /\ ContractBatch(w)
        /\ Len(SentCalls(w)) = 2
        /\ Len(log[w]) = 2
        /\ log[w][1].pos = 1 /\ UpstreamFailure(log[w][1].resp)
        /\ log[w][2].pos = 2 /\ log[w][2].resp = VaultGood(log[w][2].out)
        /\ HasReplies(w)
        /\ Replies(w)[1] = None

\* {VAULT_URL}/v1/transform/{encode|decode}/{TRANSFORM_ROLE} of the client
\* the service runs with.
EndpointUrl(endpoint) ==
    vault_client.vault_url.v \o <<"/v1/transform/", endpoint, "/">>
        \o vault_client.transform_role.v

RouteEndpoint(route) == IF route = "encrypt" THEN "encode" ELSE "decode"

(* C16: every request posted while /encrypt is handled goes to the encode   *)
(* URL of the configured role and every one posted while /decrypt is        *)
(* handled to the decode URL, never to the other; and what the client       *)
(* returns from a 200 with a data object is the encoded_value field for     *)
(* /encrypt and the decoded_value field for /decrypt (None when absent).    *)
C16_RouteBinding ==
    \A w \in Workers :
        (request[w] # Nothing /\ request[w].route \in Routes) =>
            LET url == EndpointUrl(RouteEndpoint(request[w].route))
                field == IF request[w].route = "encrypt"
                         THEN <<"encoded_value">> ELSE <<"decoded_value">>
            IN  /\ outbound[w] # Nothing => outbound[w].url = url
                /\ EndpointUrl("encode") # EndpointUrl("decode")
                /\ \A j \in 1..Len(log[w]) :
                     /\ log[w][j].out.url = url
                     /\ LET resp == log[w][j].resp IN
                        (/\ ~resp.exc
                         /\ resp.status_code = 200
                         /\ resp.json # NotJson
                         /\ resp.json.t = "obj"
                         /\ ObjHas(resp.json, DATA)
                         /\ ObjGet(resp.json, DATA).t = "obj")
                        => /\ ~log[w][j].ret.raised
                           /\ log[w][j].ret.value =
                                IF ObjHas(ObjGet(resp.json, DATA), field)
                                THEN ObjGet(ObjGet(resp.json, DATA), field)
                                ELSE None

\* /decrypt posted to the decode URL and Vault answered with encoded_value
\* only: the client returned None.
C16_Witness ==
    \E w \in Workers :
        /\ Handled(w)
        /\ request[w].route = "decrypt"
        /\ Len(log[w]) = 2
        /\ log[w][1].out.url = EndpointUrl("decode")
        /\ log[w][1].resp = VaultGood(log[w][1].out)
        /\ log[w][1].ret.value # None
        /\ ~log[w][2].resp.exc
        /\ log[w][2].resp.status_code = 200
        /\ log[w][2].resp.json # NotJson
        /\ log[w][2].resp.json.t = "obj"
        /\ ObjHas(log[w][2].resp.json, DATA)
        /\ ObjGet(log[w][2].resp.json, DATA).t = "obj"
        /\ ObjHas(ObjGet(log[w][2].resp.json, DATA), ENCODED_VALUE)
        /\ log[w][2].ret.value = None

(* C17: a request whose body is an object with a calls key gets the         *)
(* response, and causes the Vault requests, of the body that holds nothing  *)
(* but that calls value, under the same answers of the backend; so requests *)
(* with equal calls that differ in requestId, caller, sessionUser or other  *)
(* fields are treated alike.                                                *)
C17_OnlyCallsConsumed ==
    \A w \in Workers :
        (/\ Handled(w)
         /\ request[w].body # NotJson
         /\ request[w].body.t = "obj"
         /\ ObjHas(request[w].body, CALLS))
        =>
        LET alone == Handler(deploy, request[w].route, vault_client,
                             [t |-> "obj",
                              v |-> <<<<CALLS, ObjGet(request[w].body, CALLS)>>>>],
                             Answers(w))
        IN  /\ response[w] = alone.response
            /\ Posts(w) = alone.posts

\* The example batch inside a BigQuery envelope with a userDefinedContext,
\* answered 200 after two Vault exchanges.
C17_Witness ==
    \E w \in Workers :
        /\ Handled(w)
        /\ request[w].body # NotJson
        /\ request[w].body.t = "obj"
        /\ ObjHas(request[w].body, <<"userDefinedContext">>)
        /\ ObjHas(request[w].body, <<"sessionUser">>)
        /\ Len(log[w]) = 2
        /\ response[w].status = 200

\* The JSON object has exactly the one key.
OnlyKey(obj, key) == obj.t = "obj" /\ Len(obj.v) = 1 /\ obj.v[1][1] = key

(* C18: every response of the /encrypt and /decrypt handlers is either 200  *)
(* with a body whose only key is replies, holding a list, or 400 or 500     *)
(* with a body whose only key is error, holding a string.                   *)
C18_ResponseShapes ==
    \A w \in Workers :
        Handled(w) =>
            \/ /\ response[w].status = 200
               /\ OnlyKey(response[w].body, <<"replies">>)
               /\ response[w].body.v[1][2].t = "list"
            \/ /\ response[w].status \in {400, 500}
               /\ OnlyKey(response[w].body, <<"error">>)
               /\ response[w].body.v[1][2].t = "str"

\* A body without calls, answered 400 with an error string.
C18_Witness ==
    \E w \in Workers :
        /\ Handled(w)
        /\ request[w].body = JObj(<<<<<<"invalid">>, JStr(<<"data">>)>>>>)
        /\ response[w].status = 400
        /\ OnlyKey(response[w].body, <<"error">>)

\* The entries before position n that carry a value.
CarryingBefore(w, n) ==
    {i \in 1..(n - 1) : i <= Len(SentCalls(w)) /\ Carries(SentCalls(w)[i])}

(* C19: while a batch of list-or-missing entries is handled, the Vault      *)
(* exchanges completed so far are in increasing input position and each     *)
(* carried the value of its position; a request to Vault is in flight only  *)
(* inside the client call of one iteration, it is for a position after all  *)
(* completed exchanges, and every earlier entry with a value has already    *)
(* had its exchange returned or failed.                                     *)
C19_Sequential ==
    \A w \in Workers :
        (ContractBatch(w) /\ request[w].route \in Routes) =>
            /\ \A j \in 1..Len(log[w]) :
                 LET p == log[w][j].pos IN
                 /\ p \in 1..Len(SentCalls(w))
                 /\ Carries(SentCalls(w)[p])
                 /\ SentValue(log[w][j].out) = PyStr(SentCalls(w)[p].v[1])
                 /\ \A k \in 1..(j - 1) : log[w][k].pos < p
                 /\ CarryingBefore(w, p) = {log[w][k].pos : k \in 1..(j - 1)}
            /\ (outbound[w] # Nothing) <=> (pc[w] = "call")
            /\ pc[w] = "call" =>
                 LET p == idx[w] + 1 IN
                 /\ p \in 1..Len(SentCalls(w))
                 /\ Carries(SentCalls(w)[p])
                 /\ SentValue(outbound[w]) = PyStr(SentCalls(w)[p].v[1])
                 /\ CarryingBefore(w, p) = {log[w][k].pos : k \in 1..Len(log[w])}

\* The example batch: the call for the third entry is in flight after the
\* call for the first one failed.
C19_Witness ==
    \E w \in Workers :
        /\ ContractBatch(w)
        /\ Len(SentCalls(w)) = 3
        /\ pc[w] = "call"
        /\ idx[w] = 2
        /\ Len(log[w]) = 1
        /\ log[w][1].pos = 1
        /\ UpstreamFailure(log[w][1].resp)
        /\ SentValue(outbound[w]) = <<"5", "5">>

(* C20: when two requests are handled at the same time, under every         *)
(* interleaving of their steps each one's response, and the requests it     *)
(* posts to Vault, are those of the handler run alone on that request with  *)
(* the answers the backend gave to it; in between, the replies it has built *)
(* are its own.                                                             *)
C20_Isolation ==
    \A w \in Workers :
        /\ Handled(w) =>
             LET alone == Handler(deploy, request[w].route, vault_client,
                                  request[w].body, Answers(w))
             IN  /\ response[w] = alone.response
                 /\ Posts(w) = alone.posts
        /\ (request[w] # Nothing /\ pc[w] \in {"loop", "call"}) =>
             /\ Len(replies[w]) = idx[w]
             /\ \A j \in 1..Len(log[w]) :
                  /\ log[w][j].pos <= idx[w]
                  /\ replies[w][log[w][j].pos] = log[w][j].ret.value

\* The first request has been answered with its two replies while a call
\* of the second request, accepted in the meantime, is still in flight.
C20_Witness ==
    /\ Handled(1)
    /\ Len(log[1]) = 2
    /\ response[1] = RepliesResponse(<<JStr(<<"7", "4">>), None>>)
    /\ request[2] # Nothing
    /\ request[2].body # request[1].body
    /\ pc[2] = "call"
    /\ SentValue(outbound[2]) = <<"3", "7">>

(* C21: the client's four fields are those read from the environment when  *)
(* it was constructed, and no step of the running service (accepting,       *)
(* handling or answering an /encrypt, /decrypt or /health request, with     *)
(* whatever outcome) changes any of them.                                   *)
C21_ConfigImmutable ==
    [][proc = "running" =>
         /\ vault_client = ClientFields(environ, deploy)
         /\ vault_client' = vault_client
         /\ proc' = "running"]_vars

\* A request answered 200 after the previous one was answered 500, with the
\* configured namespace still in the client.
C21_Witness ==
    \E w \in Workers :
        /\ Handled(w)
        /\ previous[w] = 500
        /\ response[w].status = 200
        /\ Len(log[w]) = 2
        /\ vault_client.vault_namespace = JStr(<<"team-a">>)
        /\ vault_client.vault_token = JStr(<<"s.token">>)

(* C22: whatever was handled before (nothing, or a request answered 200,    *)
(* 400 or 500), the response of a request is the handler's result on that   *)
(* request and the backend's answers to its own Vault calls; and between    *)
(* two requests nothing of a request is held.                               *)
C22_NoCarriedState ==
    \A w \in Workers :
        /\ previous[w] \in {0, 200, 400, 500}
        /\ Handled(w) =>
             response[w] = Handler(deploy, request[w].route, vault_client,
                                   request[w].body, Answers(w)).response
        /\ pc[w] = "idle" =>
             /\ request[w] = Nothing /\ response[w] = Nothing
             /\ calls[w] = <<>> /\ replies[w] = <<>> /\ log[w] = <<>>
             /\ idx[w] = 0 /\ outbound[w] = Nothing /\ caught[w] = Nothing

\* The example batch answered 200 with its replies right after a request
\* that raised in the loop and was answered 500.
C22_Witness ==
    \E w \in Workers :
        /\ Handled(w)
        /\ previous[w] = 500
        /\ request[w].route = "encrypt"
        /\ response[w] = RepliesResponse(<<JStr(<<"7", "4">>), None,
                                           JStr(<<"8", "8">>)>>)

\* Every request posted to Vault for the current request of w, the one in
\* flight included.
Posted(w) ==
    {log[w][j].out : j \in 1..Len(log[w])}
        \cup (IF outbound[w] = Nothing THEN {} ELSE {outbound[w]})

\* VAULT_NAMESPACE is set to a non-empty text.
NamespaceConfigured ==
    environ["VAULT_NAMESPACE"] # None /\ environ["VAULT_NAMESPACE"] # JStr(<<>>)

(* C23: every request posted to Vault has the header X-Vault-Token with the *)
(* value of VAULT_TOKEN; it has the header X-Vault-Namespace exactly when   *)
(* VAULT_NAMESPACE is set and not empty, and then with that value.          *)
C23_AuthHeaders ==
    \A w \in Workers : \A out \in Posted(w) :
        /\ out.headers.t = "obj"
        /\ ObjHas(out.headers, <<"X-Vault-Token">>)
        /\ ObjGet(out.headers, <<"X-Vault-Token">>) = environ["VAULT_TOKEN"]
        /\ ObjHas(out.headers, <<"X-Vault-Namespace">>) <=> NamespaceConfigured
        /\ NamespaceConfigured =>
             ObjGet(out.headers, <<"X-Vault-Namespace">>) = environ["VAULT_NAMESPACE"]

\* A call posted by a service whose VAULT_NAMESPACE is the empty text.
C23_Witness ==
    \E w \in Workers :
        /\ environ["VAULT_NAMESPACE"] = JStr(<<>>)
        /\ Len(log[w]) = 1
        /\ ~ObjHas(log[w][1].out.headers, <<"X-Vault-Namespace">>)
        /\ ObjGet(log[w][1].out.headers, <<"X-Vault-Token">>) = JStr(<<"s.token">>)

\* The current request of w is in the hands of this handler, and once it is
\* answered the response and the Vault requests are that handler's.
HandledBy(w, route) ==
    /\ request[w].route = route
    /\ pc[w] = "done" =>
         IF route = "health"
         THEN /\ response[w] = [status |-> 200,
                                body |-> JObj(<<<<STATUS, JStr(<<"healthy">>)>>>>)]
              /\ log[w] = <<>>
         ELSE LET h == Handler(deploy, route, vault_client, request[w].body,
                               Answers(w))
              IN  response[w] = h.response /\ Posts(w) = h.posts

HasEncrypt(w) == Contains(request[w].path, <<"/encrypt">>)
HasDecrypt(w) == Contains(request[w].path, <<"/decrypt">>)
HasHealth(w) == Contains(request[w].path, <<"/health">>)

(* C24 as stated: in the Cloud Function a path containing /encrypt goes to  *)
(* encrypt_credit_card, one containing /decrypt to decrypt_credit_card, one *)
(* containing /health to health_check, and a path with none of them to      *)
(* encrypt_credit_card.                                                     *)
C24_PathRoutingAsStated ==
    \A w \in Workers :
        (deploy = "cloudfn" /\ request[w] # Nothing) =>
            /\ HasEncrypt(w) => HandledBy(w, "encrypt")
            /\ HasDecrypt(w) => HandledBy(w, "decrypt")
            /\ HasHealth(w) => HandledBy(w, "health")
            /\ (~HasEncrypt(w) /\ ~HasDecrypt(w) /\ ~HasHealth(w))
                 => HandledBy(w, "encrypt")

(* C24 amended: the three tests are tried in order.  A path containing      *)
(* /encrypt goes to encrypt_credit_card; otherwise one containing /decrypt  *)
(* goes to decrypt_credit_card; otherwise one containing /health goes to    *)
(* health_check; a path with none of them goes to encrypt_credit_card.      *)
C24_PathRouting ==
    \A w \in Workers :
        (deploy = "cloudfn" /\ request[w] # Nothing) =>
            /\ HasEncrypt(w) => HandledBy(w, "encrypt")
            /\ (~HasEncrypt(w) /\ HasDecrypt(w)) => HandledBy(w, "decrypt")
            /\ (~HasEncrypt(w) /\ ~HasDecrypt(w) /\ HasHealth(w))
                 => HandledBy(w, "health")
            /\ (~HasEncrypt(w) /\ ~HasDecrypt(w) /\ ~HasHealth(w))
                 => HandledBy(w, "encrypt")

\* The path /decrypt/encrypt was handled by encrypt_credit_card: "41" came
\* back encoded.
C24_Witness ==
    \E w \in Workers :
        /\ deploy = "cloudfn"
        /\ pc[w] = "done"
        /\ request[w].path = <<"/decrypt", "/encrypt">>
        /\ Len(log[w]) = 1
        /\ log[w][1].out.url = EndpointUrl("encode")
        /\ response[w] = RepliesResponse(<<JStr(<<"7", "4">>)>>)

Deployments == {"flask", "cloudfn"}

(* C25: whichever deployment runs, the response of an /encrypt or /decrypt  *)
(* request and the Vault requests it causes are those that the handler of   *)
(* the Flask deployment and the handler of the Cloud Function each give for *)
(* the same body, the same client and the same answers of the backend.      *)
C25_DeploymentsEquivalent ==
    \A w \in Workers :
        Handled(w) =>
            \A d \in Deployments :
                LET h == Handler(d, request[w].route, vault_client,
                                 request[w].body, Answers(w))
                IN  response[w] = h.response /\ Posts(w) = h.posts

\* The positions of the batch whose entry has a truthy first element.
Valued(w) == {i \in 1..Len(SentCalls(w)) : Carries(SentCalls(w)[i])}

\* The number of requests posted to Vault so far for the current request.
Issued(w) == Len(log[w]) + (IF outbound[w] = Nothing THEN 0 ELSE 1)

(* C26: while a batch of list-or-missing entries is handled the number of   *)
(* requests posted to Vault is the number of entries visited so far whose   *)
(* first element exists and is truthy; at the response it is the number of  *)
(* such entries of calls, and every empty, missing or falsy entry has a     *)
(* None reply and no exchange.                                              *)
C26_CallsOnlyForValues ==
    \A w \in Workers :
        (ContractBatch(w) /\ request[w].route \in Routes
            /\ pc[w] \in {"loop", "call", "done"}) =>
            /\ Issued(w) =
                 Cardinality({i \in Valued(w) :
                                i <= idx[w] + (IF pc[w] = "call" THEN 1 ELSE 0)})
            /\ Handled(w) =>
                 /\ Len(log[w]) = Cardinality(Valued(w))
                 /\ HasReplies(w)
                 /\ Len(Replies(w)) = Len(SentCalls(w))
                 /\ \A i \in (1..Len(SentCalls(w))) \ Valued(w) :
                      /\ ExchangesAt(w, i) = {}
                      /\ Replies(w)[i] = None

\* [0], [null], [""], null, [false] and []: six null replies and no request
\* to Vault.
C26_Witness ==
    \E w \in Workers :
        /\ Handled(w) /\ ContractBatch(w)
        /\ Len(SentCalls(w)) = 6
        /\ Valued(w) = {}
        /\ log[w] = <<>>
        /\ response[w] = RepliesResponse(<<None, None, None, None, None, None>>)

\* The loop iterations the handler of w has started.
Iterations(w) == idx[w] + (IF pc[w] = "call" THEN 1 ELSE 0)

(* C27: the handler of /encrypt or /decrypt starts at most len(calls) loop  *)
(* iterations, one after the other, and appends at most one reply in each;  *)
(* a response, once returned, is the only one of its request; and, every    *)
(* Vault call returning, failing or timing out, each request that entered   *)
(* the handler gets its response.                                           *)
C27_Terminates ==
    /\ [](\A w \in Workers :
            /\ Iterations(w) <= Len(calls[w])
            /\ Len(replies[w]) <= Iterations(w)
            /\ IsBatch(w) => Len(calls[w]) <= Len(SentCalls(w)))
    /\ [][\A w \in Workers :
            /\ idx'[w] \in {idx[w], idx[w] + 1, 0}
            /\ response[w] # Nothing =>
                 \/ response'[w] = response[w] /\ pc'[w] = "done"
                 \/ response'[w] = Nothing /\ pc'[w] = "idle"]_vars
    /\ \A w \in Workers :
         (pc[w] \in {"handle", "loop", "call"}) ~> (pc[w] = "done")

\* The example batch answered after three iterations, two of them with a
\* Vault call.
C27_Witness ==
    \E w \in Workers :
        /\ Handled(w)
        /\ Len(calls[w]) = 3
        /\ idx[w] = 3
        /\ Len(log[w]) = 2
        /\ response[w].status = 200

(* C28: a caller that timed out or disconnected changes nothing: the call   *)
(* in flight stays in flight, and the handler goes on to post one request   *)
(* for every remaining entry with a value, so that at the end every such    *)
(* entry of the batch has had its exchange and every entry its reply.       *)
C28_NoCancellation ==
    \A w \in Workers :
        (ContractBatch(w) /\ request[w].route \in Routes /\ ~connected[w]) =>
            /\ pc[w] \in {"handle", "loop", "call", "done"}
            /\ pc[w] = "call" => outbound[w] # Nothing
            /\ pc[w] \in {"loop", "call"} =>
                 /\ caught[w] = Nothing /\ response[w] = Nothing
                 /\ Issued(w) = Cardinality({i \in Valued(w) : i <= Iterations(w)})
            /\ pc[w] = "done" =>
                 /\ \A i \in Valued(w) : Cardinality(ExchangesAt(w, i)) = 1
                 /\ Len(log[w]) = Cardinality(Valued(w))
                 /\ HasReplies(w)
                 /\ Len(Replies(w)) = Len(SentCalls(w))

\* The caller was gone before the first of two Vault calls returned; the
\* second call was made all the same and both replies were built.
C28_Witness ==
    \E w \in Workers :
        /\ Handled(w) /\ ContractBatch(w)
        /\ ~connected[w]
        /\ Len(log[w]) = 2
        /\ ~log[w][1].waiting
        /\ log[w][2].pos = 3
        /\ response[w] = RepliesResponse(<<JStr(<<"7", "4">>), None,
                                           JStr(<<"8", "8">>)>>)

\* The entry cut down to its first element.
FirstOnly(e) == IF e.t = "list" /\ Len(e.v) > 1 THEN [t |-> "list", v |-> <<e.v[1]>>] ELSE e

\* The positions of the batch whose entry has more than one element.
Long(w) == {i \in 1..Len(SentCalls(w)) :
              SentCalls(w)[i].t = "list" /\ Len(SentCalls(w)[i].v) > 1}

(* C29: a batch with entries of more than one element is answered, and      *)
(* calls Vault, exactly as the batch in which each such entry is cut down   *)
(* to its first element; such an entry has one exchange, carrying the text  *)
(* of its first element, when that element is truthy and none otherwise.    *)
C29_FirstElementOnly ==
    \A w \in Workers :
        (Handled(w) /\ IsBatch(w) /\ Long(w) # {}) =>
            LET cut == [i \in 1..Len(SentCalls(w)) |-> FirstOnly(SentCalls(w)[i])]
                h == Handler(deploy, request[w].route, vault_client,
                             [t |-> "obj",
                              v |-> <<<<CALLS, [t |-> "list", v |-> cut]>>>>],
                             Answers(w))
            IN  /\ response[w] = h.response
                /\ Posts(w) = h.posts
                /\ response[w].status = 200 =>
                     \A i \in Long(w) :
                        IF Truthy(SentCalls(w)[i].v[1])
                        THEN /\ Cardinality(ExchangesAt(w, i)) = 1
                             /\ \A j \in ExchangesAt(w, i) :
                                  SentValue(log[w][j].out) = PyStr(SentCalls(w)[i].v[1])
                        ELSE ExchangesAt(w, i) = {}

\* [[41, null, "8"], [null, "9"]]: one call, for 41, and the replies
\* ["74", null].
C29_Witness ==
    \E w \in Workers :
        /\ Handled(w) /\ IsBatch(w)
        /\ Long(w) = {1, 2}
        /\ Len(log[w]) = 1
        /\ SentValue(log[w][1].out) = <<"4", "1">>
        /\ request[w].route = "encrypt"
        /\ response[w] = RepliesResponse(<<JStr(<<"7", "4">>), None>>)

(* C29 as stated: every entry with more than one element has exactly one    *)
(* Vault exchange, carrying the text of its first element, and the batch is *)
(* answered as the batch cut down to first elements.                        *)
C29_OneCallPerLongEntry ==
    \A w \in Workers :
        (Handled(w) /\ IsBatch(w) /\ Long(w) # {} /\ response[w].status = 200) =>
            /\ response[w] =
                 Handler(deploy, request[w].route, vault_client,
                         [t |-> "obj",
                          v |-> <<<<CALLS,
                                    [t |-> "list",
                                     v |-> [i \in 1..Len(SentCalls(w)) |->
                                              FirstOnly(SentCalls(w)[i])]]>>>>],
                         Answers(w)).response
            /\ \A i \in Long(w) : Cardinality(ExchangesAt(w, i)) = 1

\* The entry starts with a number (a non-negative integer in this model).
NumberFirst(e) == e.t = "list" /\ Len(e.v) > 0 /\ e.v[1].t = "num" /\ e.v[1].v >= 0

\* The entry with its leading number replaced by the string of its digits.
AsDigits(e) == [t |-> "list", v |-> <<[t |-> "str", v |-> Digits(e.v[1].v)]>> \o Tail(e.v)]

\* The handler's result on the batch of w with entries replaced by f.
OnBatch(w, f(_)) ==
    Handler(deploy, request[w].route, vault_client,
            [t |-> "obj",
             v |-> <<<<CALLS, [t |-> "list",
                               v |-> [i \in 1..Len(SentCalls(w)) |->
                                        f(SentCalls(w)[i])]]>>>>],
            Answers(w))

\* Every request posted for w has a string as the "value" of its body.
ValuesAreStrings(w) ==
    \A out \in Posted(w) :
        /\ out.json.t = "obj"
        /\ ObjHas(out.json, VALUE)
        /\ ObjGet(out.json, VALUE).t = "str"
        /\ \A k \in 1..Len(ObjGet(out.json, VALUE).v) :
             ObjGet(out.json, VALUE).v[k] \in STRING

StringifyAll(e) == IF NumberFirst(e) THEN AsDigits(e) ELSE e

StringifyNonZero(e) == IF NumberFirst(e) /\ e.v[1].v # 0 THEN AsDigits(e) ELSE e

(* C30 as stated: the value posted to Vault is a string, and a batch with   *)
(* numeric first elements is answered, and calls Vault, exactly as the      *)
(* batch in which each number is replaced by the string of its digits.      *)
C30_NumberAsItsDigits ==
    \A w \in Workers :
        /\ ValuesAreStrings(w)
        /\ (Handled(w) /\ IsBatch(w)) =>
             /\ response[w] = OnBatch(w, StringifyAll).response
             /\ Posts(w) = OnBatch(w, StringifyAll).posts

(* C30 amended: the value posted to Vault is a string, and a batch with     *)
(* numeric first elements other than 0 is answered, and calls Vault,        *)
(* exactly as the batch in which each such number is replaced by the string *)
(* of its digits; the number 0 is falsy and gets None without a call.       *)
C30_ValueIsString ==
    \A w \in Workers :
        /\ ValuesAreStrings(w)
        /\ (Handled(w) /\ IsBatch(w)) =>
             /\ response[w] = OnBatch(w, StringifyNonZero).response
             /\ Posts(w) = OnBatch(w, StringifyNonZero).posts
             /\ \A i \in 1..Len(SentCalls(w)) :
                  (NumberFirst(SentCalls(w)[i]) /\ SentCalls(w)[i].v[1].v = 0
                      /\ response[w].status = 200)
                  => ExchangesAt(w, i) = {} /\ Replies(w)[i] = None

\* [[41]] sent to /encrypt: Vault got the string "41" and the reply is "74".
C30_Witness ==
    \E w \in Workers :
        /\ Handled(w) /\ IsBatch(w)
        /\ SentCalls(w) = <<JList(<<JNum(41)>>)>>
        /\ request[w].route = "encrypt"
        /\ Len(log[w]) = 1
        /\ ObjGet(log[w][1].out.json, VALUE) = JStr(<<"4", "1">>)
        /\ response[w] = RepliesResponse(<<JStr(<<"7", "4">>)>>)
====
